---- MODULE Spec2Model ----
(***************************************************************************)
(* SwitchAI: the facade (main_client.py), the OpenAI request and response  *)
(* adapters (providers/_openai.py) and the Browser superclient             *)
(* (superclients/browser.py).                                              *)
(*                                                                         *)
(* Python values are modelled as follows.  Optional[T] is a sequence of    *)
(* length at most one: None is <<>> and a value v is <<v>>.  A str that    *)
(* the code inspects character by character is a sequence of one-character *)
(* strings; a str the code only passes around is a TLA+ string.  A dict    *)
(* (insertion ordered) is a sequence of <<key, value>> pairs.              *)
(***************************************************************************)
EXTENDS Integers, Sequences, FiniteSets, TLC

VARIABLES
    environ,           \* os.environ restricted to the API key variables
    provider_modules,  \* module stems found by glob, "_init__" removed
    client,            \* Optional[SwitchAI]: the instance last constructed
    adapterLog,        \* operations that reached the provider adapter
    last,              \* the last facade operation and its outcome
    b_pc,              \* Browser: position in __init__ / chat
    wrapped,           \* Browser.client: Optional[SwitchAI]
    messages,          \* the caller's message list, appended to in place
    messages0,         \* the message list as it was when chat was entered
    chatLog,           \* calls of self.client.chat: arguments and response
    httpLog,           \* URLs given to httpx client.get
    tool_idx,          \* index of the tool call the loop is at
    b_result,          \* what Browser.__init__ / chat returned or raised
    a_messages,        \* the messages given to OpenAIChatInputsAdapter
    a_request,         \* Optional: what OpenAIChatInputsAdapter built or raised
    a_response         \* Optional: what OpenAIChatResponseAdapter built or raised

facadeVars == <<environ, provider_modules, client, adapterLog, last>>

browserVars ==
    <<b_pc, wrapped, messages, messages0, chatLog, httpLog, tool_idx, b_result>>

adapterVars == <<a_messages, a_request, a_response>>

vars == <<facadeVars, browserVars, adapterVars>>

----------------------------------------------------------------------------
(* Bounds *)

MaxCalls == 2

MaxToolCalls == 2

MaxArgs == 1

MaxMessages == 1

----------------------------------------------------------------------------
(* Optional values *)

None == <<>>
Some(v) == <<v>>
IsNone(o) == o = <<>>
Get(o) == o[1]

RECURSIVE SeqToSet(_)
SeqToSet(s) == IF s = <<>> THEN {} ELSE {Head(s)} \cup SeqToSet(Tail(s))

\* mutant: the package's own __init__ module is left in the list
RemoveNothing(s, x) == s

\* list.remove(x): drops the first occurrence
RECURSIVE Remove(_, _)
Remove(s, x) ==
    IF s = <<>> THEN <<>>
    ELSE IF Head(s) = x THEN Tail(s)
    ELSE <<Head(s)>> \o Remove(Tail(s), x)

----------------------------------------------------------------------------
(* Provider registry: the providers package *)

Categories == {"chat", "embed", "transcribe", "generate_image"}

RegisteredProviders == {"openai", "mistral", "groq"}

\* SUPPORTED_MODELS of each provider module: an ordered dict category -> models
SUPPORTED_MODELS(provider) ==
    CASE provider = "openai" ->
           << <<"chat", {"gpt-4o"}>>,
              <<"embed", {"text-embedding-3-small"}>>,
              <<"transcribe", {"whisper-1"}>>,
              <<"generate_image", {"dall-e-3"}>> >>
      [] provider = "mistral" ->
           << <<"chat", {"mistral-large-latest", "llama-3"}>>,
              <<"embed", {"mistral-embed"}>> >>
      [] provider = "groq" ->
           << <<"chat", {"llama-3"}>>,
              <<"transcribe", {"whisper-1"}>> >>

\* whether the module of that stem defines SUPPORTED_MODELS (the package's own
\* __init__ module does not: reading the attribute raises AttributeError)
HasSupportedModels(stem) == stem \in RegisteredProviders

API_KEY_NAMING(provider) ==
    CASE provider = "openai" -> "OPENAI_API_KEY"
      [] provider = "mistral" -> "MISTRAL_API_KEY"
      [] provider = "groq" -> "GROQ_API_KEY"

EnvNames == {API_KEY_NAMING(p) : p \in RegisteredProviders}

\* glob.glob(".../providers/_*.py") then basename[1:-3]; the listing order is
\* the file system's, two orders are explored
GlobOrders ==
    { <<"_init__", "groq", "mistral", "openai">>,
      <<"openai", "mistral", "_init__", "groq">> }

\* str.lower() on the provider names given to the constructor
Lower(s) ==
    CASE s = "OpenAI" -> "openai"
      [] s = "MISTRAL" -> "mistral"
      [] OTHER -> s

ProviderInputs == {"openai", "OpenAI", "MISTRAL", "groq", "cohere"}

ModelInputs ==
    {"gpt-4o", "text-embedding-3-small", "whisper-1", "dall-e-3",
     "mistral-large-latest", "llama-3", "no-such-model"}

ApiKeyInputs == {None, Some("sk-arg")}

EnvValues == {None, Some(""), Some("sk-env")}

----------------------------------------------------------------------------
(* SwitchAI._get_provider_client *)

ValueError(msg, fields) == [type |-> "ValueError", msg |-> msg, detail |-> fields]

\* getattr of a module attribute that the module does not define
AttributeError(name) == [type |-> "AttributeError", msg |-> name, detail |-> <<>>]

\* for category, models in SUPPORTED_MODELS.items(): if model in models: ... break
RECURSIVE FindCategory(_, _)
FindCategory(table, model_name) ==
    IF table = <<>> THEN None
    ELSE IF model_name \in Head(table)[2] THEN Some(Head(table)[1])
    ELSE FindCategory(Tail(table), model_name)

\* any(model_name in models for models in SUPPORTED_MODELS.values())
Declares(provider, model_name) ==
    /\ HasSupportedModels(provider)
    /\ \E i \in 1..Len(SUPPORTED_MODELS(provider)) :
        model_name \in SUPPORTED_MODELS(provider)[i][2]

\* [provider for provider in provider_modules if any(...)]
RECURSIVE AlternativeProvidersOf(_, _)
AlternativeProvidersOf(modules, model_name) ==
    IF modules = <<>> THEN <<>>
    ELSE (IF Declares(Head(modules), model_name) THEN <<Head(modules)>> ELSE <<>>)
         \o AlternativeProvidersOf(Tail(modules), model_name)

\* api_key = os.environ.get(NAME) if api_key is None; raise if api_key is None
ResolveApiKey(api_key, env, provider) ==
    IF IsNone(api_key) THEN env[API_KEY_NAMING(provider)] ELSE api_key

ProviderClientAdapter(model_name, api_key) ==
    [model_name |-> model_name, api_key |-> api_key]

\* mutant: the credential is checked before the model is looked up
get_provider_client_key_first(provider, model_name, api_key, env, modules) ==
    IF provider \notin SeqToSet(modules) THEN
        [raised |-> Some(ValueError("provider_not_supported",
                         [provider |-> provider, supported |-> modules]))]
    ELSE LET category == FindCategory(SUPPORTED_MODELS(provider), model_name)
             alternative_providers == AlternativeProvidersOf(modules, model_name)
             key == ResolveApiKey(api_key, env, provider)
         IN  IF IsNone(key) THEN
                 [raised |-> Some(ValueError("api_key_missing",
                                  [variable |-> API_KEY_NAMING(provider)]))]
             ELSE IF IsNone(category) THEN
                 IF alternative_providers # <<>> THEN
                     [raised |-> Some(ValueError("model_not_supported_by_provider",
                                      [model_name |-> model_name, provider |-> provider,
                                       alternatives |-> alternative_providers]))]
                 ELSE
                     [raised |-> Some(ValueError("model_not_supported_by_any",
                                      [model_name |-> model_name]))]
             ELSE
                 [raised |-> None,
                  client |-> ProviderClientAdapter(model_name, Get(key)),
                  model_category |-> Get(category)]

get_provider_client(provider, model_name, api_key, env, modules) ==
    IF provider \notin SeqToSet(modules) THEN
        [raised |-> Some(ValueError("provider_not_supported",
                         [provider |-> provider, supported |-> modules]))]
    ELSE LET category == IF HasSupportedModels(provider)
                         THEN FindCategory(SUPPORTED_MODELS(provider), model_name)
                         ELSE None
             alternative_providers == AlternativeProvidersOf(modules, model_name)
             key == ResolveApiKey(api_key, env, provider)
         IN  IF ~HasSupportedModels(provider) \/
                (IsNone(category) /\ \E i \in 1..Len(modules) :
                                        ~HasSupportedModels(modules[i])) THEN
                 [raised |-> Some(AttributeError("SUPPORTED_MODELS"))]
             ELSE IF IsNone(category) THEN
                 IF alternative_providers # <<>> THEN
                     [raised |-> Some(ValueError("model_not_supported_by_provider",
                                      [model_name |-> model_name, provider |-> provider,
                                       alternatives |-> alternative_providers]))]
                 ELSE
                     [raised |-> Some(ValueError("model_not_supported_by_any",
                                      [model_name |-> model_name]))]
             ELSE IF IsNone(key) THEN
                 [raised |-> Some(ValueError("api_key_missing",
                                  [variable |-> API_KEY_NAMING(provider)]))]
             ELSE
                 [raised |-> None,
                  client |-> ProviderClientAdapter(model_name, Get(key)),
                  model_category |-> Get(category)]

----------------------------------------------------------------------------
(* SwitchAI.__init__ and the four gated operations *)

Construct(provider, model_name, api_key) ==
    LET self_provider == Lower(provider)
        r == get_provider_client(self_provider, model_name, api_key, environ,
                               provider_modules)
    IN  /\ client' = IF IsNone(r.raised)
                     THEN Some([provider |-> self_provider,
                                model_name |-> model_name,
                                client |-> r.client,
                                model_category |-> r.model_category])
                     ELSE None
        /\ last' = [op |-> "construct", provider |-> provider,
                    model_name |-> model_name, api_key |-> api_key,
                    raised |-> r.raised]
        /\ adapterLog' = <<>>
        /\ UNCHANGED <<environ, provider_modules>>
        /\ UNCHANGED <<browserVars, adapterVars>>

\* mutant: embed is gated on the chat category (a copied check left unedited)
GateCopied(self, op) ==
    IF self.model_category # (IF op = "embed" THEN "chat" ELSE op)
    THEN [raised |-> Some(ValueError("category_mismatch",
                          [model_name |-> self.model_name, operation |-> op])),
          forwarded |-> FALSE]
    ELSE [raised |-> None, forwarded |-> TRUE]

\* if self.model_category != op: raise ValueError(...); return self.client.op(...)
Gate(self, op) ==
    IF self.model_category # op
    THEN [raised |-> Some(ValueError("category_mismatch",
                          [model_name |-> self.model_name, operation |-> op])),
          forwarded |-> FALSE]
    ELSE [raised |-> None, forwarded |-> TRUE]

Call(op) ==
    /\ ~IsNone(client)
    /\ Len(adapterLog) < MaxCalls
    /\ LET r == Gate(Get(client), op)
       IN  /\ adapterLog' = IF r.forwarded THEN Append(adapterLog, op) ELSE adapterLog
           /\ last' = [op |-> op, raised |-> r.raised, forwarded |-> r.forwarded]
    /\ UNCHANGED <<environ, provider_modules, client>>
    /\ UNCHANGED <<browserVars, adapterVars>>

chat == Call("chat")
embed == Call("embed")
transcribe == Call("transcribe")
generate_image == Call("generate_image")

----------------------------------------------------------------------------

FacadeInit ==
    /\ environ \in [EnvNames -> EnvValues]
    /\ \E files \in GlobOrders : provider_modules = Remove(files, "_init__")
    /\ client = None
    /\ adapterLog = <<>>
    /\ last = [op |-> "none"]

FacadeNext ==
    \/ \E p \in ProviderInputs, m \in ModelInputs, k \in ApiKeyInputs : Construct(p, m, k)
    \/ chat
    \/ embed
    \/ transcribe
    \/ generate_image

----------------------------------------------------------------------------
(* superclients/browser.py: fetch_website *)

\* what client.get / raise_for_status do: a response status, or an exception
FetchOutcomes ==
    { [kind |-> "response", status |-> 200],
      [kind |-> "response", status |-> 301],
      [kind |-> "response", status |-> 404],
      [kind |-> "response", status |-> 500],
      [kind |-> "RequestError", status |-> 0],
      [kind |-> "Exception", status |-> 0] }

\* a Python str built by str() or an f-string, kept as its parts
Text(parts) == [type |-> "str", parts |-> parts]

\* httpx Response.raise_for_status: HTTPStatusError unless the status is 2xx
RaisesForStatus(status) == ~(200 <= status /\ status <= 299)

fetch_website(url, outcome) ==
    IF outcome.kind = "RequestError" THEN
        Text(<<"An error occurred while requesting", url>>)
    ELSE IF outcome.kind = "Exception" THEN
        Text(<<"An unexpected error occurred">>)
    ELSE IF RaisesForStatus(outcome.status) THEN
        Text(<<"Error response", outcome.status, "while requesting", url>>)
    ELSE
        Text(<<"content", url>>)

----------------------------------------------------------------------------
(* superclients/browser.py: Browser *)

GetWebsiteTool ==
    [type |-> "function",
     function |-> [name |-> "get_website",
                   description |-> "Get the content of a website.",
                   parameters |-> [type |-> "object", properties |-> {"url"}]]]

Dict(role, content) == [type |-> "dict", role |-> role, content |-> content]

ToolMessage(content, tool_call) ==
    [type |-> "dict", role |-> "tool", content |-> content,
     tool_call_id |-> tool_call.id, tool_name |-> tool_call.function.name]

InitialHistories ==
    { <<Dict("user", "summarise a.example")>>,
      <<Dict("system", "be brief"), Dict("user", "compare a and b")>> }

ToolsInputs == {None, Some(<<>>), Some(<<"caller_tool">>)}

\* argument mappings a model may return for a tool call
ArgumentInputs ==
    { <<>>,
      << <<"url", "https://a.example">> >>,
      << <<"url", "https://b.example">> >>,
      << <<"url", "https://a.example">>, <<"depth", "1">> >> }

Keys(mapping) == {mapping[i][1] : i \in 1..Len(mapping)}

Lookup(mapping, key) ==
    mapping[CHOOSE i \in 1..Len(mapping) : mapping[i][1] = key][2]

ToolNames == {"get_website", "search"}

ToolCall(id, name, arguments) ==
    [id |-> id, function |-> [name |-> name, arguments |-> arguments]]

\* the tool calls of a response: the i-th carries the id i
ToolCallLists ==
    UNION { { [i \in 1..n |-> ToolCall(i, f[i][1], f[i][2])] :
                f \in [1..n -> ToolNames \X ArgumentInputs] } : n \in 0..MaxToolCalls }

ChatChoice(tool_calls, finish_reason) ==
    [type |-> "ChatChoice", index |-> 0,
     message |-> [role |-> "assistant", content |-> None],
     tool_calls |-> tool_calls, finish_reason |-> finish_reason]

ChatResponse(id, choices) == [id |-> id, choices |-> choices]

FirstResponses ==
    {ChatResponse("r1", <<ChatChoice(None, "stop")>>)} \cup
    {ChatResponse("r1", <<ChatChoice(Some(tcs), IF tcs = <<>> THEN "stop" ELSE "tool_calls")>>) :
        tcs \in ToolCallLists}

SecondResponses ==
    { ChatResponse("r2", <<ChatChoice(None, "stop")>>),
      ChatResponse("r2", <<ChatChoice(Some(<<ToolCall(9, "get_website",
                              << <<"url", "https://b.example">> >>)>>), "tool_calls")>>) }

\* mutant: only None counts as no tool calls
TruthyNotNone(tool_calls) == ~IsNone(tool_calls)

\* `if tool_calls:` on an Optional[list]: neither None nor empty
Truthy(tool_calls) == ~IsNone(tool_calls) /\ Get(tool_calls) # <<>>

\* mutant: the injected tool list is passed again
SecondCallToolsKept == Some(<<GetWebsiteTool>>)

\* self.client.chat(messages, temperature, max_tokens, n): tools left to default
SecondCallTools == None

ChatCall(msgs, tools) == [messages |-> msgs, tools |-> tools, response |-> None]

FirstResponse == Get(chatLog[1].response)

FirstToolCalls == FirstResponse.choices[1].tool_calls

Returned(value) == [kind |-> "returned", value |-> value]
Raised(error) == [kind |-> "raised", error |-> error]

\* Browser.__init__
BrowserConstruct(c) ==
    /\ b_pc = "new"
    /\ IF c.model_category # "chat"
       THEN /\ b_result' = Raised(ValueError("browser_needs_chat_model", <<>>))
            /\ UNCHANGED <<b_pc, wrapped>>
       ELSE /\ b_result' = Returned("Browser")
            /\ wrapped' = Some(c)
            /\ b_pc' = "idle"
    /\ UNCHANGED <<messages, messages0, chatLog, httpLog, tool_idx>>
    /\ UNCHANGED <<facadeVars, adapterVars>>

\* Browser.chat up to the first self.client.chat(...) call
BrowserChat(msgs, tools) ==
    /\ b_pc = "idle"
    /\ LET given == IF IsNone(tools) THEN <<>> ELSE Get(tools)
           gate == Gate(Get(wrapped), "chat")
       IN  IF Len(given) > 0 THEN
               /\ b_result' = Raised(ValueError("browser_tools_not_allowed", <<>>))
               /\ b_pc' = "raised"
               /\ UNCHANGED <<messages, messages0, chatLog>>
           ELSE IF ~gate.forwarded THEN
               /\ b_result' = Raised(Get(gate.raised))
               /\ b_pc' = "raised"
               /\ UNCHANGED <<messages, messages0, chatLog>>
           ELSE
               /\ messages' = msgs
               /\ messages0' = msgs
               /\ chatLog' = Append(chatLog,
                                    ChatCall(msgs, Some(Append(given, GetWebsiteTool))))
               /\ b_pc' = "first_call"
               /\ b_result' = [kind |-> "none"]
    /\ UNCHANGED <<wrapped, httpLog, tool_idx>>
    /\ UNCHANGED <<facadeVars, adapterVars>>

\* the first call returns; `if tool_calls:` and messages.append(choices[0])
FirstReturns(response) ==
    /\ b_pc = "first_call"
    /\ chatLog' = [chatLog EXCEPT ![1].response = Some(response)]
    /\ IF Truthy(response.choices[1].tool_calls)
       THEN /\ messages' = Append(messages, response.choices[1])
            /\ tool_idx' = 1
            /\ b_pc' = "tools"
            /\ UNCHANGED b_result
       ELSE /\ b_result' = Returned(response)
            /\ b_pc' = "done"
            /\ UNCHANGED <<messages, tool_idx>>
    /\ UNCHANGED <<wrapped, messages0, httpLog>>
    /\ UNCHANGED <<facadeVars, adapterVars>>

\* a vendor SDK error leaves self.client.chat and is not caught
VendorRaises ==
    /\ b_pc \in {"first_call", "second_call"}
    /\ b_result' = Raised([type |-> "VendorError", msg |-> "vendor", detail |-> <<>>])
    /\ b_pc' = "raised"
    /\ UNCHANGED <<wrapped, messages, messages0, chatLog, httpLog, tool_idx>>
    /\ UNCHANGED <<facadeVars, adapterVars>>

\* one iteration of `for tool_call in tool_calls:`
HandleToolCall ==
    /\ b_pc = "tools"
    /\ tool_idx <= Len(Get(FirstToolCalls))
    /\ LET tool_call == Get(FirstToolCalls)[tool_idx]
           function_args == tool_call.function.arguments
       IN  IF tool_call.function.name # "get_website" THEN
               /\ tool_idx' = tool_idx + 1
               /\ UNCHANGED <<b_pc, messages, httpLog, b_result>>
           ELSE IF Keys(function_args) # {"url"} THEN
               \* fetch_website(**function_args) cannot bind its parameter
               /\ b_result' = Raised([type |-> "TypeError", msg |-> "fetch_website",
                                      detail |-> Keys(function_args)])
               /\ b_pc' = "raised"
               /\ UNCHANGED <<messages, httpLog, tool_idx>>
           ELSE
               \E outcome \in FetchOutcomes :
                   LET url == Lookup(function_args, "url")
                       web_page == fetch_website(url, outcome)
                   IN  /\ httpLog' = Append(httpLog, url)
                       /\ messages' = Append(messages, ToolMessage(web_page, tool_call))
                       /\ tool_idx' = tool_idx + 1
                       /\ UNCHANGED <<b_pc, b_result>>
    /\ UNCHANGED <<wrapped, messages0, chatLog>>
    /\ UNCHANGED <<facadeVars, adapterVars>>

\* after the loop: return self.client.chat(messages, temperature, max_tokens, n)
SecondCall ==
    /\ b_pc = "tools"
    /\ tool_idx > Len(Get(FirstToolCalls))
    /\ LET gate == Gate(Get(wrapped), "chat")
       IN  IF gate.forwarded
           THEN /\ chatLog' = Append(chatLog, ChatCall(messages, SecondCallTools))
                /\ b_pc' = "second_call"
                /\ UNCHANGED b_result
           ELSE /\ b_result' = Raised(Get(gate.raised))
                /\ b_pc' = "raised"
                /\ UNCHANGED chatLog
    /\ UNCHANGED <<wrapped, messages, messages0, httpLog, tool_idx>>
    /\ UNCHANGED <<facadeVars, adapterVars>>

SecondReturns(response) ==
    /\ b_pc = "second_call"
    /\ chatLog' = [chatLog EXCEPT ![2].response = Some(response)]
    /\ b_result' = Returned(response)
    /\ b_pc' = "done"
    /\ UNCHANGED <<wrapped, messages, messages0, httpLog, tool_idx>>
    /\ UNCHANGED <<facadeVars, adapterVars>>

\* the SwitchAI clients a Browser may be given
WrappedInputs ==
    { [provider |-> "openai", model_name |-> "gpt-4o", model_category |-> "chat"],
      [provider |-> "openai", model_name |-> "whisper-1",
       model_category |-> "transcribe"] }

BrowserNew ==
    /\ b_pc = "new"
    /\ wrapped = None
    /\ messages = <<>>
    /\ messages0 = <<>>
    /\ chatLog = <<>>
    /\ httpLog = <<>>
    /\ tool_idx = 0
    /\ b_result = [kind |-> "none"]

FacadeFixed ==
    /\ environ = [n \in EnvNames |-> Some("sk-env")]
    /\ provider_modules = <<"groq", "mistral", "openai">>
    /\ client = None
    /\ adapterLog = <<>>
    /\ last = [op |-> "none"]

BrowserNext ==
    \/ \E c \in WrappedInputs : BrowserConstruct(c)
    \/ \E msgs \in InitialHistories, tools \in ToolsInputs : BrowserChat(msgs, tools)
    \/ \E response \in FirstResponses : FirstReturns(response)
    \/ VendorRaises
    \/ HandleToolCall
    \/ SecondCall
    \/ \E response \in SecondResponses : SecondReturns(response)

----------------------------------------------------------------------------
(* Python values held in ChatToolCall.function.arguments *)

PyStr(chars) == [t |-> "str", s |-> chars]
PyInt(n) == [t |-> "int", n |-> n]
PyBool(b) == [t |-> "bool", b |-> b]
PyNone == [t |-> "NoneType"]
PyDict(items) == [t |-> "dict", items |-> items]

\* dict equality ignores insertion order: a dict as a function of its keys
RECURSIVE ToMap(_)
ToMap(v) ==
    IF v.t # "dict" THEN v
    ELSE LET keys == {v.items[i][1] : i \in 1..Len(v.items)}
             Last(k) == CHOOSE i \in 1..Len(v.items) :
                           /\ v.items[i][1] = k
                           /\ \A j \in (i + 1)..Len(v.items) : v.items[j][1] # k
         IN  [t |-> "dict", map |-> [k \in keys |-> ToMap(v.items[Last(k)][2])]]

RECURSIVE Flatten(_)
Flatten(ss) == IF ss = <<>> THEN <<>> ELSE Head(ss) \o Flatten(Tail(ss))

----------------------------------------------------------------------------
(* str(): the repr of a dict of str keys *)

Digits == <<"0", "1", "2", "3", "4", "5", "6", "7", "8", "9">>

RECURSIVE NatRepr(_)
NatRepr(n) ==
    IF n < 10 THEN <<Digits[n + 1]>> ELSE NatRepr(n \div 10) \o <<Digits[(n % 10) + 1]>>

IntRepr(n) == IF n < 0 THEN <<"-">> \o NatRepr(-n) ELSE NatRepr(n)

\* repr(str): single quotes, unless the text has a single and no double quote
StrRepr(chars) ==
    LET has(c) == \E i \in 1..Len(chars) : chars[i] = c
        quote == IF has("'") /\ ~has("\"") THEN "\"" ELSE "'"
        esc(c) == IF c = "\\" \/ c = quote THEN <<"\\", c>> ELSE <<c>>
    IN  <<quote>> \o Flatten([i \in 1..Len(chars) |-> esc(chars[i])]) \o <<quote>>

RECURSIVE PyRepr(_)
PyRepr(v) ==
    CASE v.t = "str" -> StrRepr(v.s)
      [] v.t = "int" -> IntRepr(v.n)
      [] v.t = "bool" -> IF v.b THEN <<"T", "r", "u", "e">> ELSE <<"F", "a", "l", "s", "e">>
      [] v.t = "NoneType" -> <<"N", "o", "n", "e">>
      [] v.t = "dict" ->
           <<"{">> \o
           Flatten([i \in 1..Len(v.items) |->
                      (IF i > 1 THEN <<",", " ">> ELSE <<>>)
                      \o StrRepr(v.items[i][1]) \o <<":", " ">> \o PyRepr(v.items[i][2])])
           \o <<"}">>

----------------------------------------------------------------------------
(* json.loads on texts of objects, strings, integers, true, false and null  *)
(* (no array, fraction, exponent or \uXXXX escape occurs in the texts here) *)

Whitespace == {" ", "\n", "\r", "\t"}

Ch(text, i) == IF i <= Len(text) THEN text[i] ELSE "<EOF>"

DigitValue(c) == CHOOSE d \in 0..9 : Digits[d + 1] = c

IsDigit(c) == \E d \in 1..10 : Digits[d] = c

Fail == [ok |-> FALSE]

RECURSIVE SkipWs(_, _)
SkipWs(text, i) == IF Ch(text, i) \in Whitespace THEN SkipWs(text, i + 1) ELSE i

\* the characters a backslash may introduce, and what they stand for
Unescape(c) ==
    CASE c = "\"" -> "\""
      [] c = "\\" -> "\\"
      [] c = "/" -> "/"
      [] c = "n" -> "\n"
      [] c = "r" -> "\r"
      [] c = "t" -> "\t"
      [] OTHER -> "<invalid>"

\* i is just after the opening double quote
RECURSIVE ScanString(_, _, _)
ScanString(text, i, acc) ==
    LET c == Ch(text, i) IN
    IF c = "<EOF>" \/ c \in {"\n", "\r", "\t"} THEN Fail
    ELSE IF c = "\"" THEN [ok |-> TRUE, v |-> acc, i |-> i + 1]
    ELSE IF c = "\\" THEN
        IF Unescape(Ch(text, i + 1)) = "<invalid>" THEN Fail
        ELSE ScanString(text, i + 2, Append(acc, Unescape(Ch(text, i + 1))))
    ELSE ScanString(text, i + 1, Append(acc, c))

RECURSIVE ScanDigits(_, _, _)
ScanDigits(text, i, n) ==
    IF IsDigit(Ch(text, i)) THEN ScanDigits(text, i + 1, 10 * n + DigitValue(Ch(text, i)))
    ELSE [ok |-> TRUE, v |-> n, i |-> i]

\* -?(0|[1-9][0-9]*)
ScanInt(text, i) ==
    LET neg == Ch(text, i) = "-"
        j == IF neg THEN i + 1 ELSE i
    IN  IF ~IsDigit(Ch(text, j)) THEN Fail
        ELSE LET r == IF Ch(text, j) = "0" THEN [ok |-> TRUE, v |-> 0, i |-> j + 1]
                      ELSE ScanDigits(text, j, 0)
             IN  [ok |-> TRUE, v |-> PyInt(IF neg THEN 0 - r.v ELSE r.v), i |-> r.i]

Matches(text, i, word) ==
    /\ i + Len(word) - 1 <= Len(text)
    /\ SubSeq(text, i, i + Len(word) - 1) = word

RECURSIVE ParseValue(_, _)
RECURSIVE ParseMembers(_, _, _)

\* i is at the first non-blank character after "{" or ","
ParseMembers(text, i, items) ==
    IF Ch(text, i) # "\"" THEN Fail
    ELSE LET k == ScanString(text, i + 1, <<>>) IN
         IF ~k.ok THEN Fail
         ELSE LET c == SkipWs(text, k.i) IN
              IF Ch(text, c) # ":" THEN Fail
              ELSE LET val == ParseValue(text, SkipWs(text, c + 1)) IN
                   IF ~val.ok THEN Fail
                   ELSE LET e == SkipWs(text, val.i)
                            more == Append(items, <<k.v, val.v>>)
                        IN  IF Ch(text, e) = "}" THEN
                                [ok |-> TRUE, v |-> PyDict(more), i |-> e + 1]
                            ELSE IF Ch(text, e) = "," THEN
                                ParseMembers(text, SkipWs(text, e + 1), more)
                            ELSE Fail

ParseValue(text, i) ==
    LET c == Ch(text, i) IN
    IF c = "\"" THEN
        LET r == ScanString(text, i + 1, <<>>)
        IN  IF r.ok THEN [ok |-> TRUE, v |-> PyStr(r.v), i |-> r.i] ELSE Fail
    ELSE IF c = "{" THEN
        LET j == SkipWs(text, i + 1)
        IN  IF Ch(text, j) = "}" THEN [ok |-> TRUE, v |-> PyDict(<<>>), i |-> j + 1]
            ELSE ParseMembers(text, j, <<>>)
    ELSE IF Matches(text, i, <<"t", "r", "u", "e">>) THEN
        [ok |-> TRUE, v |-> PyBool(TRUE), i |-> i + 4]
    ELSE IF Matches(text, i, <<"f", "a", "l", "s", "e">>) THEN
        [ok |-> TRUE, v |-> PyBool(FALSE), i |-> i + 5]
    ELSE IF Matches(text, i, <<"n", "u", "l", "l">>) THEN
        [ok |-> TRUE, v |-> PyNone, i |-> i + 4]
    ELSE IF c = "-" \/ IsDigit(c) THEN ScanInt(text, i)
    ELSE Fail

JSONDecodeError == [type |-> "JSONDecodeError", msg |-> "json.loads", detail |-> <<>>]

\* the value, or the error raised
JsonLoads(text) ==
    LET r == ParseValue(text, SkipWs(text, 1)) IN
    IF r.ok /\ SkipWs(text, r.i) = Len(text) + 1
    THEN [raised |-> None, value |-> r.v]
    ELSE [raised |-> Some(JSONDecodeError)]

----------------------------------------------------------------------------
(* providers/_openai.py: OpenAIChatInputsAdapter *)

UrlRefs == {"https://a.example/cat.png"}

LocalRefs == {"cat.jpg"}

\* utils.is_url
is_url(image) == image \in UrlRefs

\* utils.encode_image: the base64 text of the image
encode_image(image) == <<"base64", image>>

ByReference(image) == [type |-> "image_url", image_url |-> [url |-> Text(<<image>>)]]

Inlined(image) ==
    [type |-> "image_url",
     image_url |-> [url |-> Text(<<"data:image/jpeg;base64,">> \o encode_image(image))]]

\* mutant: the test is inverted
adapt_image_content_inverted(content_item) ==
    IF ~is_url(content_item.image) THEN ByReference(content_item.image)
    ELSE Inlined(content_item.image)

adapt_image_content(content_item) ==
    IF is_url(content_item.image) THEN ByReference(content_item.image)
    ELSE Inlined(content_item.image)

adapt_content_item(content_item) ==
    IF content_item.type = "text" THEN [type |-> "text", text |-> content_item.text]
    ELSE IF content_item.type = "image" THEN adapt_image_content(content_item)
    ELSE content_item

\* content is a list of items ([kind |-> "list"]) or a str ([kind |-> "str"])
adapt_user_message(message) ==
    LET original_content == message.content
        adapted_content ==
            IF original_content.kind = "list"
            THEN [i \in 1..Len(original_content.items) |->
                     adapt_content_item(original_content.items[i])]
            ELSE IF original_content.kind = "str"
            THEN <<[type |-> "text", text |-> original_content.text]>>
            ELSE <<>>
    IN  [role |-> "user", content |-> adapted_content]

\* tool_call.dict() with function.arguments replaced by str(arguments)
AdaptToolCall(tool_call) ==
    [id |-> tool_call.id,
     function |-> [name |-> tool_call.function.name,
                   arguments |-> PyRepr(tool_call.function.arguments)]]

adapt_chat_choice(chat_choice) ==
    IF Truthy(chat_choice.tool_calls)
    THEN [role |-> chat_choice.message.role,
          content |-> chat_choice.message.content,
          tool_calls |-> [i \in 1..Len(Get(chat_choice.tool_calls)) |->
                             AdaptToolCall(Get(chat_choice.tool_calls)[i])]]
    ELSE [role |-> chat_choice.message.role,
          content |-> chat_choice.message.content]

TypeError(what) == [type |-> "TypeError", msg |-> what, detail |-> <<>>]

\* _adapt_message: the adapted message, or the error raised
adapt_message(message) ==
    IF message.type = "ChatChoice" THEN
        [raised |-> None, value |-> adapt_chat_choice(message)]
    ELSE IF message.type = "str" THEN
        \* message["role"] on a str
        [raised |-> Some(TypeError("string indices must be integers"))]
    ELSE IF message.role = "user" THEN
        [raised |-> None, value |-> adapt_user_message(message)]
    ELSE
        [raised |-> None, value |-> message]

\* [self._adapt_message(m) for m in messages]
OpenAIChatInputsAdapter(msgs) ==
    LET each == [i \in 1..Len(msgs) |-> adapt_message(msgs[i])] IN
    IF \E i \in 1..Len(msgs) : ~IsNone(each[i].raised)
    THEN [raised |-> each[CHOOSE i \in 1..Len(msgs) :
                             /\ ~IsNone(each[i].raised)
                             /\ \A j \in 1..(i - 1) : IsNone(each[j].raised)].raised]
    ELSE [raised |-> None, messages |-> [i \in 1..Len(msgs) |-> each[i].value]]

----------------------------------------------------------------------------
(* providers/_openai.py: OpenAIChatResponseAdapter *)

\* the vendor's message carries one tool call whose arguments are `text`
OpenAIChatResponseAdapter(id, name, text) ==
    LET parsed == JsonLoads(text) IN
    IF ~IsNone(parsed.raised) THEN [raised |-> parsed.raised, text |-> text]
    ELSE [raised |-> None, text |-> text,
          choice |-> ChatChoice(Some(<<ToolCall(id, name, parsed.value)>>), "tool_calls")]

----------------------------------------------------------------------------
(* Inputs of the adapters *)

KeyInputs == { <<"u", "r", "l">>, <<"i", "t", "'", "s">> }

ValueInputs ==
    { PyStr(<<"a">>), PyStr(<<"i", "t", "'", "s">>), PyInt(5), PyBool(TRUE), PyNone,
      PyDict(<< <<<<"q">>, PyInt(-12)>> >>) }

NoRepeat(f) == \A i, j \in DOMAIN f : i # j => f[i][1] # f[j][1]

\* argument mappings of at most MaxArgs entries
ArgMaps ==
    UNION { { PyDict(f) : f \in {g \in [1..n -> KeyInputs \X ValueInputs] : NoRepeat(g)} } :
              n \in 0..MaxArgs }

ContentItems ==
    { [type |-> "text", text |-> "what is this?"],
      [type |-> "audio", data |-> "clip"] }
    \cup { [type |-> "image", image |-> r] : r \in UrlRefs \cup LocalRefs }

ContentLists ==
    { <<a>> : a \in ContentItems } \cup { <<a, b>> : a, b \in ContentItems }

MessageInputs ==
    { [type |-> "str", text |-> "Hello"] }
    \cup { [type |-> "dict", role |-> r, content |-> [kind |-> "str", text |-> "hi"]] :
             r \in {"system", "user", "assistant", "tool"} }
    \cup { [type |-> "dict", role |-> "user", content |-> [kind |-> "list", items |-> l]] :
             l \in ContentLists }
    \cup { ChatChoice(None, "stop"), ChatChoice(Some(<<>>), "stop") }
    \cup { ChatChoice(Some(<<ToolCall("call_1", "get_website", a)>>), "tool_calls") :
             a \in ArgMaps }

MessageLists ==
    UNION { [1..n -> MessageInputs] : n \in 1..MaxMessages }

\* argument texts a vendor may send of its own
VendorTexts ==
    { <<"{", "\"", "u", "r", "l", "\"", ":", " ", "\"", "a", "\"", "}">>,
      <<"{", "}">>,
      <<"{", "\"", "u", "r", "l", "\"", ":", " ", "n", "u", "l", "l", ",", " ",
        "\"", "q", "\"", ":", "-", "1", "2", "}">> }

\* the argument texts of the tool calls in the request last built
RequestTexts ==
    IF IsNone(a_request) \/ ~IsNone(Get(a_request).raised) THEN {}
    ELSE LET out == Get(a_request).messages IN
         { out[i].tool_calls[1].function.arguments :
             i \in {j \in 1..Len(out) : "tool_calls" \in DOMAIN out[j]} }

----------------------------------------------------------------------------
(* The adapters as operations *)

\* OpenAIChatInputsAdapter(messages): one request is followed
BuildRequest(msgs) ==
    /\ IsNone(a_request)
    /\ a_messages' = msgs
    /\ a_request' = Some(OpenAIChatInputsAdapter(msgs))
    /\ a_response' = None
    /\ UNCHANGED <<facadeVars, browserVars>>

\* OpenAIChatResponseAdapter(response), the response carrying the arguments
\* the vendor was sent
AdaptEchoedResponse ==
    /\ \E text \in RequestTexts :
          a_response' = Some(OpenAIChatResponseAdapter("call_1", "get_website", text))
    /\ UNCHANGED <<a_messages, a_request>>
    /\ UNCHANGED <<facadeVars, browserVars>>

\* OpenAIChatResponseAdapter(response), the arguments being the vendor's own
AdaptVendorResponse ==
    /\ ~IsNone(a_request)
    /\ IsNone(Get(a_request).raised)
    /\ \E text \in VendorTexts :
          a_response' = Some(OpenAIChatResponseAdapter("call_2", "get_website", text))
    /\ UNCHANGED <<a_messages, a_request>>
    /\ UNCHANGED <<facadeVars, browserVars>>

AdapterNew ==
    /\ a_messages = <<>>
    /\ a_request = None
    /\ a_response = None

AdapterNext ==
    \/ \E msgs \in MessageLists : BuildRequest(msgs)
    \/ AdaptEchoedResponse
    \/ AdaptVendorResponse

AdapterInit == FacadeFixed /\ BrowserNew /\ AdapterNew

SpecAdapter == AdapterInit /\ [][AdapterNext]_vars

----------------------------------------------------------------------------

Init == FacadeInit /\ BrowserNew /\ AdapterNew

Next == FacadeNext

Spec == Init /\ [][Next]_vars

BrowserInit == FacadeFixed /\ BrowserNew /\ AdapterNew

SpecBrowser == BrowserInit /\ [][BrowserNext]_vars

----------------------------------------------------------------------------
(* Properties of the facade *)

\* the models a provider module declares, over all categories
DeclaredModels(p) ==
    UNION {SUPPORTED_MODELS(p)[i][2] : i \in 1..Len(SUPPORTED_MODELS(p))}

\* the categories under which a provider module declares a model
CategoriesOf(p, m) ==
    {SUPPORTED_MODELS(p)[i][1] :
        i \in {j \in 1..Len(SUPPORTED_MODELS(p)) : m \in SUPPORTED_MODELS(p)[j][2]}}

ConstructedWith == last.op = "construct"

\* C1 (state part): a constructed client holds exactly one category, the one
\* under which its provider declares its model.
C1_OneCategory ==
    ~IsNone(client) =>
        /\ Get(client).model_category \in Categories
        /\ CategoriesOf(Get(client).provider, Get(client).model_name)
             = {Get(client).model_category}

\* C1 (step part): a chat/embed/transcribe/generate_image call leaves the client
\* and its category as they were, reaches the adapter iff the operation equals
\* the category, and otherwise raises the category-mismatch error with the
\* adapter not reached.
C1_GateStep ==
    last'.op \in Categories =>
        /\ client' = client
        /\ ~IsNone(client)
        /\ last'.forwarded <=> (last'.op = Get(client).model_category)
        /\ last'.forwarded =>
              /\ IsNone(last'.raised)
              /\ adapterLog' = Append(adapterLog, last'.op)
        /\ ~last'.forwarded =>
              /\ ~IsNone(last'.raised)
              /\ Get(last'.raised).msg = "category_mismatch"
              /\ adapterLog' = adapterLog

\* C1: for every registered (provider, model) pair a constructed client holds
\* exactly one category, no call changes it, and a call is forwarded to the
\* adapter iff its operation equals the category; any other call fails with
\* the category-mismatch error and never reaches the adapter.
C1_CategoryGate == [](C1_OneCategory) /\ [][C1_GateStep]_vars

\* a matching call was forwarded and a later non-matching call was refused
C1_Witness ==
    /\ ~IsNone(client)
    /\ last.op \in Categories
    /\ ~last.forwarded
    /\ Len(adapterLog) = 1

\* C2: constructing with no explicit api_key and the provider's environment
\* variable absent or empty creates no client and raises the
\* missing-credential error.
C2_MissingCredential ==
    ( /\ ConstructedWith
      /\ Lower(last.provider) \in RegisteredProviders
      /\ last.model_name \in DeclaredModels(Lower(last.provider))
      /\ IsNone(last.api_key)
      /\ environ[API_KEY_NAMING(Lower(last.provider))] \in {None, Some("")} )
    => /\ IsNone(client)
       /\ ~IsNone(last.raised)
       /\ Get(last.raised).msg = "api_key_missing"

\* C6: constructing with a provider name that, lower-cased, is no registered
\* provider fails, creates no adapter, and the error lists exactly the
\* registered provider names.
C6_UnknownProvider ==
    (ConstructedWith /\ Lower(last.provider) \notin RegisteredProviders)
    => /\ IsNone(client)
       /\ ~IsNone(last.raised)
       /\ Get(last.raised).msg = "provider_not_supported"
       /\ SeqToSet(Get(last.raised).detail.supported) = RegisteredProviders
       /\ Len(Get(last.raised).detail.supported) = Cardinality(RegisteredProviders)

C6_Witness ==
    /\ ConstructedWith
    /\ last.provider = "cohere"
    /\ ~IsNone(last.raised)

\* the other registered providers that declare the model
OtherProvidersDeclaring(p, m) ==
    {q \in RegisteredProviders \ {p} : m \in DeclaredModels(q)}

\* C7: constructing with a registered provider and a model it does not declare
\* fails; the error names exactly the other providers declaring the model, or
\* reports the model as supported by none when there is no such provider; this
\* holds whether or not a credential is resolvable.
C7_UnsupportedModel ==
    ( /\ ConstructedWith
      /\ Lower(last.provider) \in RegisteredProviders
      /\ last.model_name \notin DeclaredModels(Lower(last.provider)) )
    => LET p == Lower(last.provider)
           others == OtherProvidersDeclaring(p, last.model_name)
       IN  /\ IsNone(client)
           /\ ~IsNone(last.raised)
           /\ IF others # {}
              THEN /\ Get(last.raised).msg = "model_not_supported_by_provider"
                   /\ SeqToSet(Get(last.raised).detail.alternatives) = others
                   /\ p \notin SeqToSet(Get(last.raised).detail.alternatives)
              ELSE Get(last.raised).msg = "model_not_supported_by_any"

\* a model declared by two other providers is asked of openai with no
\* credential resolvable
C7_Witness ==
    /\ ConstructedWith
    /\ last.provider = "openai"
    /\ last.model_name = "llama-3"
    /\ IsNone(last.api_key)
    /\ IsNone(environ["OPENAI_API_KEY"])
    /\ ~IsNone(last.raised)
    /\ Get(last.raised).msg = "model_not_supported_by_provider"

----------------------------------------------------------------------------
(* Properties of the Browser superclient *)

FirstReturned == Len(chatLog) >= 1 /\ ~IsNone(chatLog[1].response)

\* null or empty
NoToolCalls(tool_calls) == tool_calls = None \/ tool_calls = Some(<<>>)

RECURSIVE GetWebsiteCalls(_)
GetWebsiteCalls(tcs) ==
    IF tcs = <<>> THEN <<>>
    ELSE (IF Head(tcs).function.name = "get_website" THEN <<Head(tcs)>> ELSE <<>>)
         \o GetWebsiteCalls(Tail(tcs))

\* what the chat invocation appended after the original history and the
\* first choice
AppendedToolMessages == SubSeq(messages, Len(messages0) + 2, Len(messages))

\* C4: no failure in fetching the page of a get_website tool call reaches the
\* caller: once the tool calls of the first response are handled, every
\* get_website call has its tool message with string content and the second
\* chat call is issued.
C4_FetchNeverRaises ==
    /\ b_pc = "raised" => b_result.error.type \in {"ValueError", "VendorError"}
    /\ (FirstReturned /\ ~NoToolCalls(FirstToolCalls) /\ b_pc # "tools") =>
          /\ Len(chatLog) = 2
          /\ Len(AppendedToolMessages) = Len(GetWebsiteCalls(Get(FirstToolCalls)))
          /\ \A k \in 1..Len(AppendedToolMessages) :
                AppendedToolMessages[k].content.type = "str"

\* C5: when the first response's first choice has no tool calls (null or
\* empty), chat returns that response itself, having made one chat call and no
\* HTTP request and having appended nothing to the message history.
C5_NoToolCallsReturnsFirst ==
    (FirstReturned /\ NoToolCalls(FirstToolCalls)) =>
        /\ b_pc = "done"
        /\ b_result = Returned(FirstResponse)
        /\ Len(chatLog) = 1
        /\ httpLog = <<>>
        /\ messages = messages0

\* the first response carried an empty (not null) tool-call list
C5_Witness ==
    /\ b_pc = "done"
    /\ FirstReturned
    /\ FirstToolCalls = Some(<<>>)

\* C10: one chat invocation makes at most two chat calls; the first carries
\* exactly the get_website tool; a second is made only when the first choice
\* has tool calls, carries no tools, and its history is the original one, then
\* the first choice, then one tool message per get_website call in order with
\* that call's id; what it returns is returned as it is, with no further chat
\* call or fetch.
C10_TwoRounds ==
    /\ Len(chatLog) <= 2
    /\ Len(chatLog) >= 1 =>
          /\ chatLog[1].messages = messages0
          /\ ~IsNone(chatLog[1].tools)
          /\ Len(Get(chatLog[1].tools)) = 1
          /\ Get(chatLog[1].tools)[1].function.name = "get_website"
    /\ Len(chatLog) = 2 =>
          /\ FirstReturned
          /\ ~NoToolCalls(FirstToolCalls)
          /\ IsNone(chatLog[2].tools)
          /\ LET history == chatLog[2].messages
                 calls == GetWebsiteCalls(Get(FirstToolCalls))
                 n0 == Len(messages0)
             IN  /\ Len(history) = n0 + 1 + Len(calls)
                 /\ SubSeq(history, 1, n0) = messages0
                 /\ history[n0 + 1] = FirstResponse.choices[1]
                 /\ \A k \in 1..Len(calls) :
                       /\ history[n0 + 1 + k].role = "tool"
                       /\ history[n0 + 1 + k].tool_call_id = calls[k].id
                 /\ Len(httpLog) = Len(calls)
                 /\ messages = history
          /\ ~IsNone(chatLog[2].response) =>
                /\ b_pc = "done"
                /\ b_result = Returned(Get(chatLog[2].response))

\* two pages were fetched and the second response, itself asking for a tool
\* call, was returned
C10_Witness ==
    /\ b_pc = "done"
    /\ Len(chatLog) = 2
    /\ Len(httpLog) = 2
    /\ httpLog[1] # httpLog[2]
    /\ ~NoToolCalls(b_result.value.choices[1].tool_calls)

----------------------------------------------------------------------------
(* Properties of the OpenAI adapters *)

RequestBuilt == ~IsNone(a_request) /\ IsNone(Get(a_request).raised)

\* the messages of the input list that are ChatChoice objects with tool calls
ChoicesWithToolCalls ==
    {i \in 1..Len(a_messages) :
        a_messages[i].type = "ChatChoice" /\ ~NoToolCalls(a_messages[i].tool_calls)}

\* C3: the arguments of a ChatChoice's tool call, encoded as the request
\* adapter encodes them and decoded as the response adapter decodes them, are
\* the original mapping.
C3_ArgumentsRoundTrip ==
    (RequestBuilt /\ ~IsNone(a_response)) =>
        \A i \in ChoicesWithToolCalls :
            LET original == Get(a_messages[i].tool_calls)[1].function.arguments
                encoded == Get(a_request).messages[i].tool_calls[1].function.arguments
            IN  Get(a_response).text = encoded =>
                    /\ IsNone(Get(a_response).raised)
                    /\ ToMap(Get(Get(a_response).choice.tool_calls)[1].function.arguments)
                         = ToMap(original)

\* C8: the request adapter accepts a {role, content} mapping, a ChatChoice and
\* a plain text string in the message list; a plain string becomes a user
\* message carrying the text; no shape makes it fail.
C8_AllMessageShapes ==
    ~IsNone(a_request) =>
        /\ IsNone(Get(a_request).raised)
        /\ \A i \in 1..Len(a_messages) :
              a_messages[i].type = "str" =>
                  /\ Get(a_request).messages[i].role = "user"
                  /\ \E k \in 1..Len(Get(a_request).messages[i].content) :
                        Get(a_request).messages[i].content[k].text = a_messages[i].text

\* C9: an image item of a user message is passed by reference, with the
\* original reference as its url, iff the reference is a URL; any other image
\* becomes a base64 data URI of the encoded image.
C9_ImageTranslation ==
    RequestBuilt =>
        \A i \in 1..Len(a_messages) :
            (/\ a_messages[i].type = "dict"
             /\ a_messages[i].role = "user"
             /\ a_messages[i].content.kind = "list") =>
                \A k \in 1..Len(a_messages[i].content.items) :
                    LET item == a_messages[i].content.items[k]
                        out == Get(a_request).messages[i].content[k]
                    IN  item.type = "image" =>
                            /\ out.type = "image_url"
                            /\ out.image_url.url = Text(<<item.image>>)
                                 <=> item.image \in UrlRefs
                            /\ item.image \notin UrlRefs =>
                                 out.image_url.url =
                                    Text(<<"data:image/jpeg;base64,", "base64", item.image>>)

\* a user message carrying both a URL image and a local image was adapted
C9_Witness ==
    /\ RequestBuilt
    /\ \E i \in 1..Len(a_messages) :
          /\ a_messages[i].type = "dict"
          /\ a_messages[i].role = "user"
          /\ a_messages[i].content.kind = "list"
          /\ Len(a_messages[i].content.items) = 2
          /\ a_messages[i].content.items[1].type = "image"
          /\ a_messages[i].content.items[2].type = "image"
          /\ a_messages[i].content.items[1].image \in UrlRefs
          /\ a_messages[i].content.items[2].image \in LocalRefs

====
